---------------------------- MODULE Spec2Model ----------------------------
(***************************************************************************)
(* Model of the video-playlist-manager synchronization and caching engine: *)
(*   src/database.py                   YouTubeDatabase (the Store)         *)
(*   src/youtube_playlist_collector.py YouTubePlaylistCollector            *)
(*   src/file_import_tool.py           FileImportTool                      *)
(*                                                                         *)
(* The program is single threaded.  pc is the position of that one thread: *)
(* "idle" between top-level calls, a loop position inside a paginated      *)
(* fetch or a reconciliation, "done" when the call has returned or raised. *)
(* Every remote request is one step; the remote service and the input      *)
(* files are the environment, whose answers are drawn when they are read.  *)
(***************************************************************************)
EXTENDS Integers, Sequences, FiniteSets, TLC

(***************************************************************************)
(* Bounds of the model.                                                    *)
(***************************************************************************)
MaxCalls == 2
MaxPages == 2
MaxPageLen == 2
MaxFiles == 2
MaxLines == 2

\* maxResults of the two list requests: the remote's page size limit.
MaxResults == 50

PlaylistIds == {<<"PL", 1>>, <<"PL", 2>>}
ItemIds == {<<"item", 1>>, <<"item", 2>>}
VideoIds == {<<"video", 1>>, <<"video", 2>>}
\* Content versions: what the remote holds for an entity may change.
Vals == {1, 2}

(***************************************************************************)
(* Values.  A column value or payload field is a pair <<tag, n>>; Python's *)
(* None, which sqlite3 binds as SQL NULL, is the empty tuple.  Identifiers *)
(* are pairs of the same shape, defined with the bounds above.             *)
(***************************************************************************)
NULL == <<>>

\* dict.get(key): the value, or None when the key is absent.
Get(d, k) == IF k \in DOMAIN d THEN d[k] ELSE NULL

\* A dict without some of its keys.
Without(d, ks) == [k \in (DOMAIN d) \ ks |-> d[k]]

(***************************************************************************)
(* The Store: three tables (CREATE TABLE ... id TEXT PRIMARY KEY).  A table*)
(* is the set of its rows; a row has every column of the table.            *)
(***************************************************************************)
PlaylistColumns ==
    {"etag", "id", "publishedAt", "channelId", "title", "description", "itemCount"}
PlaylistItemColumns == {"etag", "id", "playlistId", "videoId", "position"}
VideoColumns ==
    {"etag", "id", "title", "description", "publishedAt", "channelId", "channelTitle"}

\* sqlite3's default adapter binds a datetime as its ISO text
\* (isoformat(" ")); every other value is bound as it is.
Adapt(x) == IF x # NULL /\ x[1] = "datetime" THEN <<"text+00:00", x[2]>> ELSE x

\* The parameter tuple of an INSERT: one .get() per column, None when absent.
RowOf(columns, data) == [c \in columns |-> Adapt(Get(data, c))]

IdsOf(table) == {r.id : r \in table}

RowsWithId(table, id) == {r \in table : r.id = id}

\* What an INSERT statement followed by commit leaves: the table, and the
\* exception execute() raised, if any.
Committed(table) == [table |-> table, error |-> "none"]

\* INSERT INTO a table declared without its key: rows accumulate.
InsertKeepingOld(table, row) == Committed(table \cup {row})

\* Plain INSERT: a row whose id is taken violates the primary key.
InsertPlain(table, row) ==
    IF RowsWithId(table, row.id) # {}
    THEN [table |-> table, error |-> "IntegrityError"]
    ELSE Committed(table \cup {row})

\* An upsert that merges: a NULL in the new row keeps the old row's value.
InsertMerging(table, row) ==
    LET old == RowsWithId(table, row.id)
        merged ==
            IF old = {} THEN row
            ELSE LET o == CHOOSE r \in old : TRUE
                 IN  [c \in DOMAIN row |-> IF row[c] = NULL THEN o[c] ELSE row[c]]
    IN  Committed((table \ old) \cup {merged})

\* REPLACE that empties the table before writing.
InsertTruncating(table, row) == Committed({row})

\* A REPLACE that deletes the conflicting row and loses the new one.
InsertLosingNew(table, row) ==
    IF RowsWithId(table, row.id) # {}
    THEN Committed(table \ RowsWithId(table, row.id))
    ELSE Committed(table \cup {row})

\* An INSERT whose commit is put off: the table does not have the row yet.
InsertUncommitted(table, row) == Committed(table)

\* INSERT OR REPLACE on a table keyed by id: the rows that conflict on the
\* primary key are deleted, then the new row is inserted.
InsertOrReplace(table, row) ==
    Committed((table \ RowsWithId(table, row.id)) \cup {row})

insert_playlist(table, playlist_data) ==
    InsertOrReplace(table, RowOf(PlaylistColumns, playlist_data))

insert_playlist_item(table, item_data) ==
    InsertOrReplace(table, RowOf(PlaylistItemColumns, item_data))

insert_video(table, video_data) ==
    InsertOrReplace(table, RowOf(VideoColumns, video_data))

\* SELECT * FROM playlist: every row (no ORDER BY: the order is unspecified).
get_all_playlists(table) == table

\* SELECT * FROM playlist_item WHERE playlistId = ?
get_playlist_items(table, playlist_id) == {r \in table : r.playlistId = playlist_id}

\* A lookup that finds no row.
LookupMiss(table, video_id) == NULL

\* SELECT * FROM video WHERE id = ?; fetchone(): a row, or None.
get_video(table, video_id) ==
    LET rows == RowsWithId(table, video_id)
    IN  IF rows = {} THEN NULL ELSE CHOOSE r \in rows : TRUE

(***************************************************************************)
(* Raw payloads of the remote service: a JSON object is a function from    *)
(* field paths to values, item['snippet']['title'] being the value at      *)
(* "snippet.title".  A field of content version v carries <<path, v>>; a   *)
(* timestamp string of instant v carries <<suffix, v>>, the suffix being   *)
(* "Z", "+00:00", or "garbage" for text that is no ISO timestamp.          *)
(***************************************************************************)
PlaylistPaths ==
    {"etag", "id", "snippet.publishedAt", "snippet.channelId", "snippet.title",
     "snippet.description", "contentDetails.itemCount"}
PlaylistItemPaths == {"etag", "id", "contentDetails.videoId", "snippet.position"}
VideoPaths ==
    {"etag", "id", "snippet.title", "snippet.description", "snippet.publishedAt",
     "snippet.channelId", "snippet.channelTitle"}

Stamps == {"Z", "+00:00", "garbage"}

RawPlaylist(id, v, stamp) ==
    [p \in PlaylistPaths |->
        CASE p = "id" -> id
          [] p = "snippet.publishedAt" -> <<stamp, v>>
          [] OTHER -> <<p, v>>]

\* The ordinal position is zero-based: version v of an item sits at v - 1.
RawPlaylistItem(id, video_id, v) ==
    [p \in PlaylistItemPaths |->
        CASE p = "id" -> id
          [] p = "contentDetails.videoId" -> video_id
          [] p = "snippet.position" -> <<p, v - 1>>
          [] OTHER -> <<p, v>>]

RawVideo(id, v, stamp) ==
    [p \in VideoPaths |->
        CASE p = "id" -> id
          [] p = "snippet.publishedAt" -> <<stamp, v>>
          [] OTHER -> <<p, v>>]

\* What the remote may put in a page: well-formed items, items with an
\* unparseable timestamp, and items lacking a field the normalizer reads.
RawPlaylists ==
    {RawPlaylist(i, v, s) : i \in PlaylistIds, v \in Vals, s \in Stamps}
    \cup {Without(RawPlaylist(i, v, "Z"), {"snippet.title"}) : i \in PlaylistIds, v \in Vals}

RawPlaylistItems ==
    {RawPlaylistItem(i, w, v) : i \in ItemIds, w \in VideoIds, v \in Vals}
    \cup {Without(RawPlaylistItem(i, w, 1), {"snippet.position"}) : i \in ItemIds, w \in VideoIds}

\* The items a videos().list(id=video_id) response may carry for that id.
RawVideos(video_id) ==
    {RawVideo(video_id, v, s) : v \in Vals, s \in Stamps}
    \cup {Without(RawVideo(video_id, v, "Z"), {"snippet.title"}) : v \in Vals}

(***************************************************************************)
(* Record Normalizer: the dict literals of the collector and of the import *)
(* tool.  A subscript of a missing key raises KeyError, fromisoformat of   *)
(* text that is no timestamp raises ValueError.                            *)
(***************************************************************************)
\* str.replace('Z', '+00:00')
ReplaceZ(s) == IF s[1] = "Z" THEN <<"+00:00", s[2]>> ELSE s

ParsesAsIso(s) == s[1] = "+00:00"

\* datetime.fromisoformat on text with a UTC offset: an aware datetime.
fromisoformat(s) == <<"datetime", s[2]>>

Raised(e) == [ok |-> FALSE, error |-> e]

Normalized(d) == [ok |-> TRUE, data |-> d]

toPlaylist(item) ==
    IF ~(PlaylistPaths \subseteq DOMAIN item) THEN Raised("KeyError")
    ELSE IF ~ParsesAsIso(ReplaceZ(item["snippet.publishedAt"])) THEN Raised("ValueError")
    ELSE Normalized(
        [etag |-> item["etag"],
         id |-> item["id"],
         publishedAt |-> fromisoformat(ReplaceZ(item["snippet.publishedAt"])),
         channelId |-> item["snippet.channelId"],
         title |-> item["snippet.title"],
         description |-> item["snippet.description"],
         itemCount |-> item["contentDetails.itemCount"]])

toPlaylistItem(item, playlist_id) ==
    IF ~(PlaylistItemPaths \subseteq DOMAIN item) THEN Raised("KeyError")
    ELSE Normalized(
        [etag |-> item["etag"],
         id |-> item["id"],
         playlistId |-> playlist_id,
         videoId |-> item["contentDetails.videoId"],
         position |-> item["snippet.position"]])

toVideo(video_item) ==
    IF ~(VideoPaths \subseteq DOMAIN video_item) THEN Raised("KeyError")
    ELSE IF ~ParsesAsIso(ReplaceZ(video_item["snippet.publishedAt"])) THEN Raised("ValueError")
    ELSE Normalized(
        [etag |-> video_item["etag"],
         id |-> video_item["id"],
         title |-> video_item["snippet.title"],
         description |-> video_item["snippet.description"],
         publishedAt |-> fromisoformat(ReplaceZ(video_item["snippet.publishedAt"])),
         channelId |-> video_item["snippet.channelId"],
         channelTitle |-> video_item["snippet.channelTitle"]])

(***************************************************************************)
(* State.                                                                  *)
(***************************************************************************)
VARIABLES
    playlist,          \* table playlist
    playlist_item,     \* table playlist_item
    video,             \* table video
    pc,                \* position of the program's one thread
    op,                \* the top-level call in progress (or just ended)
    arg,               \* its argument
    outcome,           \* "running", "returned" or "raised"
    ret,               \* value returned by a Store read, else None
    calls,             \* top-level calls started so far
    displaced,         \* rows the last Store upsert call deleted on conflict
    next_page_token,   \* local of the pagination loop
    response,          \* the page being processed: items left and its token
    item,              \* the page item whose video is being looked up
    requests,          \* number of list requests issued by this call
    responses,         \* number of list responses received by this call
    persisted,         \* rows this call has upserted, the latest per id
    files_left,        \* process_files: files of file_paths not yet processed
    video_ids,         \* process_file: extracted ids not yet iterated over
    added_videos,      \* process_file: its result list
    all_added_videos,  \* process_files: its result list
    candidates,        \* the ids extract_video_ids returned for the file
    video0,            \* table video as it was when process_file was entered
    looked,            \* process_file: <<id, result>> of each get_video_data call
    lookups,           \* process_files: videos().list requests issued, per id
    file_errors,       \* diagnostics extract_video_ids printed during this call
    conn,              \* self.conn of the YouTubeDatabase: None, or a connection
    cursor             \* self.cursor: None, or a cursor of the connection

store == <<playlist, playlist_item, video>>
frame == <<next_page_token, response, item, requests, responses, persisted>>
import == <<files_left, video_ids, added_videos, all_added_videos, candidates,
            video0, looked, lookups, file_errors>>
handle == <<conn, cursor>>
vars == <<playlist, playlist_item, video, pc, op, arg, outcome, ret, calls,
          displaced, next_page_token, response, item, requests, responses,
          persisted, files_left, video_ids, added_videos, all_added_videos,
          candidates, video0, looked, lookups, file_errors, conn, cursor>>

\* YouTubeDatabase.__init__ runs initialize_database: CREATE TABLE IF NOT
\* EXISTS on a new file leaves three empty tables, and the connection it
\* opened is closed.
Init ==
    /\ playlist = {}
    /\ playlist_item = {}
    /\ video = {}
    /\ pc = "idle"
    /\ op = "none"
    /\ arg = NULL
    /\ outcome = "returned"
    /\ ret = NULL
    /\ calls = 0
    /\ displaced = {}
    /\ next_page_token = NULL
    /\ response = NULL
    /\ item = NULL
    /\ requests = 0
    /\ responses = 0
    /\ persisted = {}
    /\ files_left = 0
    /\ video_ids = {}
    /\ added_videos = <<>>
    /\ all_added_videos = <<>>
    /\ candidates = {}
    /\ video0 = {}
    /\ looked = {}
    /\ lookups = [i \in VideoIds |-> 0]
    /\ file_errors = <<>>
    /\ conn = NULL
    /\ cursor = NULL

\* A top-level call starts: the thread is between calls.
Begin(name, a) ==
    /\ pc = "idle"
    /\ calls < MaxCalls
    /\ calls' = calls + 1
    /\ op' = name
    /\ arg' = a
    /\ UNCHANGED handle

\* The caller goes on after a call: the call's locals are gone.
Return ==
    /\ pc = "done"
    /\ pc' = "idle"
    /\ op' = "none"
    /\ arg' = NULL
    /\ outcome' = "returned"
    /\ ret' = NULL
    /\ displaced' = {}
    /\ next_page_token' = NULL
    /\ response' = NULL
    /\ item' = NULL
    /\ requests' = 0
    /\ responses' = 0
    /\ persisted' = {}
    /\ files_left' = 0
    /\ video_ids' = {}
    /\ added_videos' = <<>>
    /\ all_added_videos' = <<>>
    /\ candidates' = {}
    /\ video0' = {}
    /\ looked' = {}
    /\ lookups' = [i \in VideoIds |-> 0]
    /\ file_errors' = <<>>
    /\ UNCHANGED <<store, calls, handle>>

Inserts == {"insert_playlist", "insert_playlist_item", "insert_video"}

(***************************************************************************)
(* YouTubeDatabase called directly.  The dicts a caller may pass are the   *)
(* normalizer's records and the same records lacking one column.           *)
(***************************************************************************)
PlaylistDicts ==
    LET full == {toPlaylist(RawPlaylist(i, v, "Z")).data : i \in PlaylistIds, v \in Vals}
    IN  full \cup {Without(d, {"description"}) : d \in full}

PlaylistItemDicts ==
    LET full == {toPlaylistItem(RawPlaylistItem(i, w, v), p).data :
                    i \in ItemIds, w \in VideoIds, v \in Vals, p \in PlaylistIds}
    IN  full \cup {Without(d, {"position"}) : d \in full}

VideoDicts ==
    LET full == {toVideo(RawVideo(i, v, "Z")).data : i \in VideoIds, v \in Vals}
    IN  full \cup {Without(d, {"description"}) : d \in full}

\* The lists a cursor may return for a set of rows: any order.
Orderings(rows) ==
    {s \in [1..Cardinality(rows) -> rows] : {s[i] : i \in DOMAIN s} = rows}

Finished(result) ==
    /\ pc' = "done"
    /\ outcome' = result

\* How a call that ends with a Store write ends: it returns, or the
\* exception of the write goes to the caller.
Result(write) == IF write.error = "none" THEN "returned" ELSE write.error

\* An exception propagates out of a fetch: the loop's locals are gone.
Unwound(e) ==
    /\ Finished(e)
    /\ next_page_token' = NULL
    /\ response' = NULL
    /\ item' = NULL

DbInsertPlaylist ==
    \E playlist_data \in PlaylistDicts :
        /\ Begin("insert_playlist", playlist_data)
        /\ playlist' = insert_playlist(playlist, playlist_data).table
        /\ displaced' = RowsWithId(playlist, playlist_data.id)
        /\ Finished(Result(insert_playlist(playlist, playlist_data)))
        /\ UNCHANGED <<playlist_item, video, ret, frame, import>>

DbInsertPlaylistItem ==
    \E item_data \in PlaylistItemDicts :
        /\ Begin("insert_playlist_item", item_data)
        /\ playlist_item' = insert_playlist_item(playlist_item, item_data).table
        /\ displaced' = RowsWithId(playlist_item, item_data.id)
        /\ Finished(Result(insert_playlist_item(playlist_item, item_data)))
        /\ UNCHANGED <<playlist, video, ret, frame, import>>

DbInsertVideo ==
    \E video_data \in VideoDicts :
        /\ Begin("insert_video", video_data)
        /\ video' = insert_video(video, video_data).table
        /\ displaced' = RowsWithId(video, video_data.id)
        /\ Finished(Result(insert_video(video, video_data)))
        /\ UNCHANGED <<playlist, playlist_item, ret, frame, import>>

DbGetAllPlaylists ==
    /\ Begin("db.get_all_playlists", NULL)
    /\ ret' \in Orderings(get_all_playlists(playlist))
    /\ Finished("returned")
    /\ UNCHANGED <<store, displaced, frame, import>>

DbGetPlaylistItems ==
    \E playlist_id \in PlaylistIds :
        /\ Begin("db.get_playlist_items", playlist_id)
        /\ ret' \in Orderings(get_playlist_items(playlist_item, playlist_id))
        /\ Finished("returned")
        /\ UNCHANGED <<store, displaced, frame, import>>

DbGetVideo ==
    \E video_id \in VideoIds :
        /\ Begin("db.get_video", video_id)
        /\ ret' = get_video(video, video_id)
        /\ Finished("returned")
        /\ UNCHANGED <<store, displaced, frame, import>>

(***************************************************************************)
(* The connection of a YouTubeDatabase operation, step by step: connect(), *)
(* the statements, close().  sqlite3 may raise at connect() (the file      *)
(* cannot be opened) and at execute() or commit() (the file is no          *)
(* database, is locked or read-only).                                      *)
(***************************************************************************)
\* What sqlite3.connect(db_path) and conn.cursor() return.
Connection == <<"sqlite3.Connection", 1>>
Cursor == <<"sqlite3.Cursor", 1>>

StoreOps == Inserts \cup {"db.get_all_playlists", "db.get_playlist_items", "db.get_video"}

\* The arguments an operation is called with.
ArgsOf(name) ==
    CASE name = "initialize_database" -> {NULL}
      [] name = "insert_playlist" -> PlaylistDicts
      [] name = "insert_playlist_item" -> PlaylistItemDicts
      [] name = "insert_video" -> VideoDicts
      [] name = "db.get_all_playlists" -> {NULL}
      [] name = "db.get_playlist_items" -> PlaylistIds
      [] name = "db.get_video" -> VideoIds

\* An operation is entered: self.connect() is its first statement.
StoreCall ==
    \E name \in StoreOps \cup {"initialize_database"} :
        \E a \in ArgsOf(name) :
            /\ Begin(name, a)
            /\ pc' = "connect"
            /\ outcome' = "running"
            /\ UNCHANGED <<store, ret, displaced, frame, import>>

\* connect(): sqlite3.connect raises and the exception leaves the
\* operation (connect() stands before the try), or self.conn and
\* self.cursor are set.
Connect ==
    /\ pc = "connect"
    /\ \/ /\ Finished("OperationalError")
          /\ UNCHANGED handle
       \/ /\ conn' = Connection
          /\ cursor' = Cursor
          /\ pc' = "execute"
          /\ UNCHANGED outcome
    /\ UNCHANGED <<store, op, arg, ret, calls, displaced, frame, import>>

\* insert_* and get_* run their statements in try ... finally:
\* self.close(); initialize_database runs them with no try around them.
InTryFinally(name) == name \in StoreOps

\* execute() (and commit()): an exception, or the statement's effect.
Execute ==
    /\ pc = "execute"
    /\ \/ /\ outcome' = "DatabaseError"
          /\ pc' = IF InTryFinally(op) THEN "close" ELSE "done"
          /\ UNCHANGED <<store, ret, displaced>>
       \/ /\ pc' = "close"
          /\ UNCHANGED outcome
          /\ CASE op = "insert_playlist" ->
                    /\ playlist' = insert_playlist(playlist, arg).table
                    /\ displaced' = RowsWithId(playlist, arg.id)
                    /\ UNCHANGED <<playlist_item, video, ret>>
               [] op = "insert_playlist_item" ->
                    /\ playlist_item' = insert_playlist_item(playlist_item, arg).table
                    /\ displaced' = RowsWithId(playlist_item, arg.id)
                    /\ UNCHANGED <<playlist, video, ret>>
               [] op = "insert_video" ->
                    /\ video' = insert_video(video, arg).table
                    /\ displaced' = RowsWithId(video, arg.id)
                    /\ UNCHANGED <<playlist, playlist_item, ret>>
               [] op = "db.get_all_playlists" ->
                    /\ ret' \in Orderings(get_all_playlists(playlist))
                    /\ UNCHANGED <<store, displaced>>
               [] op = "db.get_playlist_items" ->
                    /\ ret' \in Orderings(get_playlist_items(playlist_item, arg))
                    /\ UNCHANGED <<store, displaced>>
               [] op = "db.get_video" ->
                    /\ ret' = get_video(video, arg)
                    /\ UNCHANGED <<store, displaced>>
               [] op = "initialize_database" ->
                    UNCHANGED <<store, ret, displaced>>
    /\ UNCHANGED <<op, arg, calls, frame, import, handle>>

\* close(), last statement of initialize_database and finally clause of
\* the other operations; the operation then returns, or its exception
\* goes on to the caller.
Close ==
    /\ pc = "close"
    /\ conn' = NULL
    /\ cursor' = NULL
    /\ Finished(IF outcome = "running" THEN "returned" ELSE outcome)
    /\ UNCHANGED <<store, op, arg, ret, calls, displaced, frame, import>>

NextHandle ==
    \/ StoreCall
    \/ Connect
    \/ Execute
    \/ Close
    \/ Return

SpecHandle == Init /\ [][NextHandle]_vars

(***************************************************************************)
(* The remote service.  A list response carries its items and, on every    *)
(* page but the last, a continuation token under "nextPageToken".  The     *)
(* model holds of a response the number of items still to be processed;    *)
(* each item's payload is drawn when the for loop reaches it.              *)
(***************************************************************************)
EmptyString == <<"", 0>>

\* The cursor the remote hands out with its n-th page.
Token(n) == <<"token", n>>

\* Python truthiness of response.get('nextPageToken').
Falsy(x) == x = NULL \/ x = EmptyString

\* The pages the remote may answer the n-th list request of a call with:
\* at most MaxResults items, and no further page after MaxPages pages.
PageLens == {n \in 0..MaxPageLen : n <= MaxResults}

Pages(n) ==
    {[items |-> k] : k \in PageLens}
    \cup {[items |-> k, nextPageToken |-> Token(n)] : k \in {j \in PageLens : n < MaxPages}}

\* What videos().list(id=video_id).execute() may do: raise, or answer with
\* no item (the remote has no such video), or with the video's item.
VideoResponses(video_id) ==
    {[error |-> "HttpError"], [items |-> <<>>]}
    \cup {[items |-> <<video_item>>] : video_item \in RawVideos(video_id)}

\* A token that is sent for every page after the first whatever came back.
StaleToken(resp) == IF Falsy(Get(resp, "nextPageToken")) THEN NULL ELSE Token(0)

\* next_page_token = response.get('nextPageToken')
NextPageToken(resp) == Get(resp, "nextPageToken")

\* A fetch that undoes its writes when a request fails.
RolledBack(table, written) == table \ written

\* An exception leaves the loop with nothing to undo: every insert_* call
\* has committed its row before it returned.
AfterException(table, written) == table

\* The row set with row as the latest row of its id and kind.
Latest(rows, row) ==
    {r \in rows : ~(r.id = row.id /\ DOMAIN r = DOMAIN row)} \cup {row}

\* The end of the for loop over a page: take the token, leave the while
\* loop when there is none.
EndOfPage(resp, list_pc) ==
    /\ next_page_token' = NextPageToken(resp)
    /\ IF Falsy(NextPageToken(resp))
       THEN Finished("returned")
       ELSE pc' = list_pc /\ outcome' = "running"

\* One item of the page is done.
ItemDone(list_pc, item_pc) ==
    /\ response' = [response EXCEPT !["items"] = @ - 1]
    /\ IF response["items"] = 1
       THEN EndOfPage(response, list_pc)
       ELSE pc' = item_pc /\ outcome' = "running" /\ UNCHANGED next_page_token

\* request.execute() of a list request: the request goes out with the
\* loop's token; it fails, or a page comes back.
ListRequest(list_pc, item_pc) ==
    /\ pc = list_pc
    /\ requests' = requests + 1
    /\ \/ /\ Unwound("HttpError")
          /\ playlist' = AfterException(playlist, persisted)
          /\ playlist_item' = AfterException(playlist_item, persisted)
          /\ video' = AfterException(video, persisted)
          /\ UNCHANGED responses
       \/ \E page \in Pages(requests + 1) :
              /\ response' = page
              /\ responses' = responses + 1
              /\ IF page["items"] = 0
                 THEN EndOfPage(page, list_pc)
                 ELSE pc' = item_pc /\ outcome' = "running" /\ UNCHANGED next_page_token
              /\ UNCHANGED <<store, item>>
    /\ UNCHANGED <<op, arg, ret, calls, displaced, persisted, import, handle>>

(***************************************************************************)
(* YouTubePlaylistCollector.get_all_playlists                              *)
(***************************************************************************)
GetAllPlaylists ==
    /\ Begin("get_all_playlists", NULL)
    /\ pc' = "playlists.list"
    /\ outcome' = "running"
    /\ next_page_token' = NULL
    /\ UNCHANGED <<store, ret, displaced, response, item, requests, responses, persisted,
                   import>>

PlaylistsList == ListRequest("playlists.list", "playlists.item")

\* One turn of the for loop: normalize the item and upsert it.
PlaylistsItem ==
    /\ pc = "playlists.item"
    /\ \E raw \in RawPlaylists :
        LET n == toPlaylist(raw)
            w == insert_playlist(playlist, n.data)
        IN  IF n.ok /\ w.error = "none"
            THEN /\ playlist' = w.table
                 /\ persisted' = Latest(persisted, RowOf(PlaylistColumns, n.data))
                 /\ ItemDone("playlists.list", "playlists.item")
                 /\ UNCHANGED item
            ELSE IF n.ok
            THEN /\ Unwound(w.error)
                 /\ playlist' = AfterException(w.table, persisted)
                 /\ UNCHANGED persisted
            ELSE /\ Unwound(n.error)
                 /\ playlist' = AfterException(playlist, persisted)
                 /\ UNCHANGED persisted
    /\ UNCHANGED <<playlist_item, video, op, arg, ret, calls, displaced,
                   requests, responses, import, handle>>

(***************************************************************************)
(* YouTubePlaylistCollector.get_playlist_videos                            *)
(***************************************************************************)
GetPlaylistVideos ==
    \E playlist_id \in PlaylistIds :
        /\ Begin("get_playlist_videos", playlist_id)
        /\ pc' = "playlistItems.list"
        /\ outcome' = "running"
        /\ next_page_token' = NULL
        /\ UNCHANGED <<store, ret, displaced, response, item, requests, responses,
                       persisted, import>>

PlaylistItemsList == ListRequest("playlistItems.list", "playlistItems.item")

\* First half of a turn of the for loop: normalize the item and upsert it.
PlaylistItemsItem ==
    /\ pc = "playlistItems.item"
    /\ \E raw \in RawPlaylistItems :
        LET n == toPlaylistItem(raw, arg)
            w == insert_playlist_item(playlist_item, n.data)
        IN  IF n.ok /\ w.error = "none"
            THEN /\ playlist_item' = w.table
                 /\ persisted' = Latest(persisted, RowOf(PlaylistItemColumns, n.data))
                 /\ item' = raw
                 /\ pc' = "videos.list"
                 /\ outcome' = "running"
                 /\ UNCHANGED <<next_page_token, response>>
            ELSE IF n.ok
            THEN /\ Unwound(w.error)
                 /\ playlist_item' = AfterException(w.table, persisted)
                 /\ UNCHANGED persisted
            ELSE /\ Unwound(n.error)
                 /\ playlist_item' = AfterException(playlist_item, persisted)
                 /\ UNCHANGED persisted
    /\ UNCHANGED <<playlist, video, op, arg, ret, calls, displaced, requests,
                   responses, import, handle>>

\* Second half: videos().list(id=videoId) for the item; the request fails,
\* or answers with no item, or with the video, which is normalized and
\* upserted.
PlaylistItemsVideo ==
    /\ pc = "videos.list"
    /\ \E video_response \in VideoResponses(item["contentDetails.videoId"]) :
        IF "error" \in DOMAIN video_response
        THEN /\ Unwound(video_response.error)
             /\ video' = AfterException(video, persisted)
             /\ UNCHANGED persisted
        ELSE IF video_response.items = <<>>
        THEN /\ ItemDone("playlistItems.list", "playlistItems.item")
             /\ item' = NULL
             /\ UNCHANGED <<video, persisted>>
        ELSE LET n == toVideo(video_response.items[1])
                 w == insert_video(video, n.data)
             IN  IF n.ok /\ w.error = "none"
                 THEN /\ video' = w.table
                      /\ persisted' = Latest(persisted, RowOf(VideoColumns, n.data))
                      /\ ItemDone("playlistItems.list", "playlistItems.item")
                      /\ item' = NULL
                 ELSE IF n.ok
                 THEN /\ Unwound(w.error)
                      /\ video' = AfterException(w.table, persisted)
                      /\ UNCHANGED persisted
                 ELSE /\ Unwound(n.error)
                      /\ video' = AfterException(video, persisted)
                      /\ UNCHANGED persisted
    /\ UNCHANGED <<playlist, playlist_item, op, arg, ret, calls, displaced,
                   requests, responses, import, handle>>

(***************************************************************************)
(* FileImportTool.  A file is missing, or unreadable (open or decoding     *)
(* raises), or a sequence of lines.  A line is a sequence of fragments:    *)
(* plain text, a bare watch link, or a markdown link whose target is a     *)
(* watch link.                                                             *)
(***************************************************************************)
Text == [kind |-> "text"]
Url(id) == [kind |-> "url", id |-> id]
Markdown(id) == [kind |-> "markdown", id |-> id]

Lines ==
    {<<Text>>}
    \cup {<<Url(i)>> : i \in VideoIds}
    \cup {<<Markdown(i)>> : i \in VideoIds}
    \cup {<<Url(i), Markdown(j)>> : i \in VideoIds, j \in VideoIds}

Files ==
    {[exists |-> FALSE], [exists |-> TRUE, readable |-> FALSE]}
    \cup {[exists |-> TRUE, readable |-> TRUE, lines |-> ls] :
            ls \in UNION {[1..n -> Lines] : n \in 0..MaxLines}}

\* self.youtube_patterns: the raw URL pattern and the markdown link pattern.
youtube_patterns == <<"raw", "markdown">>

\* Patterns that miss the link inside a markdown link.
MatchesBareOnly(pattern, fragment) == pattern = "raw" /\ fragment.kind = "url"

\* Whether the pattern matches at the fragment: the raw URL pattern finds
\* the link wherever it stands, the target of a markdown link included.
Matches(pattern, fragment) ==
    IF pattern = "raw" THEN fragment.kind \in {"url", "markdown"}
    ELSE fragment.kind = "markdown"

\* re.findall(pattern, line): the captured ids, as a set.
findall(pattern, line) ==
    {line[k].id : k \in {j \in DOMAIN line : Matches(pattern, line[j])}}

\* The body of the try block of extract_video_ids: open() or the decoding
\* of a line raises, or every pattern is applied to every line.
ReadLines(file) ==
    IF ~file.readable THEN Raised("OSError")
    ELSE Normalized(UNION {findall(youtube_patterns[p], file.lines[l]) :
                              p \in DOMAIN youtube_patterns, l \in DOMAIN file.lines})

\* A try block whose exception is not caught.
Unhandled(result) == result

\* except Exception: print "Error reading file" and return set().
ExceptReading(result) == IF result.ok THEN result ELSE Normalized({})

\* The set extract_video_ids returns, or the exception that leaves it.
extract_video_ids(file) ==
    IF ~file.exists THEN Normalized({}) ELSE ExceptReading(ReadLines(file))

\* What extract_video_ids prints about the file itself.
Diagnostic(file) ==
    IF ~file.exists THEN <<"File not found">>
    ELSE IF ~ReadLines(file).ok THEN <<"Error reading file">>
    ELSE <<>>

\* extract_video_ids called on a path: the set comes back, the diagnostic
\* is printed.
ExtractVideoIds ==
    \E file \in Files :
        /\ Begin("extract_video_ids", file)
        /\ file_errors' = Diagnostic(file)
        /\ IF extract_video_ids(file).ok
           THEN ret' = extract_video_ids(file).data /\ Finished("returned")
           ELSE ret' = NULL /\ Finished(extract_video_ids(file).error)
        /\ UNCHANGED <<store, displaced, frame, files_left, video_ids, added_videos,
                       all_added_videos, candidates, video0, looked, lookups>>

\* The body of the try block of get_video_data.
VideoData(video_response) ==
    IF "error" \in DOMAIN video_response THEN Raised(video_response.error)
    ELSE IF video_response.items = <<>> THEN Normalized(NULL)
    ELSE toVideo(video_response.items[1])

\* A try block without its handler: the exception goes to the caller.
Propagate(result) == result

\* except Exception: print the error and return None.
ExceptException(result) == IF result.ok THEN result ELSE Normalized(NULL)

get_video_data(video_response) == ExceptException(VideoData(video_response))

\* A reconciler that takes every candidate for new.
NeverCached(table, video_id) == FALSE

\* existing_video = self.db.get_video(video_id); the id is skipped when it
\* is there.
AlreadyCached(table, video_id) == get_video(table, video_id) # NULL

ProcessFiles ==
    \E n \in 1..MaxFiles :
        /\ Begin("process_files", n)
        /\ files_left' = n
        /\ all_added_videos' = <<>>
        /\ pc' = "process_file"
        /\ outcome' = "running"
        /\ file_errors' = <<>>
        /\ UNCHANGED <<store, ret, displaced, frame, video_ids, added_videos,
                       candidates, video0, looked, lookups>>

\* process_file has returned added: process_files extends its list and
\* takes the next path, or returns.
FileDone(added) ==
    /\ all_added_videos' = all_added_videos \o added
    /\ files_left' = files_left - 1
    /\ IF files_left = 1
       THEN Finished("returned") /\ ret' = all_added_videos \o added
       ELSE pc' = "process_file" /\ outcome' = "running" /\ UNCHANGED ret

\* process_file is entered for the next path: the file is read.
ProcessFile ==
    /\ pc = "process_file"
    /\ \E file \in Files :
        LET extracted == extract_video_ids(file)
        IN  /\ file_errors' = file_errors \o Diagnostic(file)
            /\ IF ~extracted.ok
               THEN /\ Finished(extracted.error)
                    /\ UNCHANGED <<video_ids, candidates, all_added_videos,
                                   files_left, ret>>
               ELSE /\ video_ids' = extracted.data
                    /\ candidates' = extracted.data
                    /\ IF extracted.data = {}
                       THEN FileDone(<<>>)
                       ELSE /\ pc' = "video_id"
                            /\ outcome' = "running"
                            /\ UNCHANGED <<all_added_videos, files_left, ret>>
    /\ added_videos' = <<>>
    /\ video0' = video
    /\ looked' = {}
    /\ UNCHANGED <<store, op, arg, calls, displaced, frame, lookups, handle>>

\* One turn of the loop over the set video_ids, in any order.
ProcessVideoId ==
    /\ pc = "video_id"
    /\ \E video_id \in video_ids :
        /\ video_ids' = video_ids \ {video_id}
        /\ IF AlreadyCached(video, video_id)
           THEN /\ UNCHANGED <<video, added_videos, looked, lookups>>
                /\ IF video_ids = {video_id}
                   THEN FileDone(added_videos)
                   ELSE UNCHANGED <<pc, outcome, ret, all_added_videos, files_left>>
           ELSE \E video_response \in VideoResponses(video_id) :
                LET result == get_video_data(video_response)
                    w == IF result.ok /\ result.data # NULL
                         THEN insert_video(video, result.data)
                         ELSE Committed(video)
                    added == IF result.ok /\ result.data # NULL
                             THEN Append(added_videos, result.data)
                             ELSE added_videos
                IN  /\ lookups' = [lookups EXCEPT ![video_id] = @ + 1]
                    /\ video' = w.table
                    /\ IF ~result.ok \/ w.error # "none"
                       THEN /\ Finished(IF result.ok THEN w.error ELSE result.error)
                            /\ UNCHANGED <<added_videos, looked, ret, all_added_videos,
                                           files_left>>
                       ELSE /\ looked' = looked \cup {<<video_id, result.data>>}
                            /\ added_videos' = added
                            /\ IF video_ids = {video_id}
                               THEN FileDone(added)
                               ELSE UNCHANGED <<pc, outcome, ret, all_added_videos,
                                               files_left>>
    /\ UNCHANGED <<playlist, playlist_item, op, arg, calls, displaced, frame,
                   candidates, video0, file_errors, handle>>

Next ==
    \/ DbInsertPlaylist
    \/ DbInsertPlaylistItem
    \/ DbInsertVideo
    \/ DbGetAllPlaylists
    \/ DbGetPlaylistItems
    \/ DbGetVideo
    \/ GetAllPlaylists
    \/ PlaylistsList
    \/ PlaylistsItem
    \/ GetPlaylistVideos
    \/ PlaylistItemsList
    \/ PlaylistItemsItem
    \/ PlaylistItemsVideo
    \/ ProcessFiles
    \/ ProcessFile
    \/ ProcessVideoId
    \/ Return

Spec == Init /\ [][Next]_vars

\* The Store used on its own.
NextStore ==
    \/ DbInsertPlaylist
    \/ DbInsertPlaylistItem
    \/ DbInsertVideo
    \/ DbGetAllPlaylists
    \/ DbGetPlaylistItems
    \/ DbGetVideo
    \/ Return

SpecStore == Init /\ [][NextStore]_vars

\* Runs of the collector.
NextSync ==
    \/ GetAllPlaylists
    \/ PlaylistsList
    \/ PlaylistsItem
    \/ GetPlaylistVideos
    \/ PlaylistItemsList
    \/ PlaylistItemsItem
    \/ PlaylistItemsVideo
    \/ Return

SpecSync == Init /\ [][NextSync]_vars

\* Runs of the import tool.
NextImport ==
    \/ ProcessFiles
    \/ ProcessFile
    \/ ProcessVideoId
    \/ Return

SpecImport == Init /\ [][NextImport]_vars

\* The import tool with its extraction also called on its own.
NextFiles ==
    \/ ExtractVideoIds
    \/ ProcessFiles
    \/ ProcessFile
    \/ ProcessVideoId
    \/ Return

SpecFiles == Init /\ [][NextFiles]_vars

(***************************************************************************)
(* main(): one full synchronization, get_all_playlists followed by         *)
(* get_playlist_videos for every playlist it returned, taken as one step   *)
(* against remote data that stays as it is during the run and answers      *)
(* every request.  The remote holds a listing of playlists, a listing of   *)
(* items per playlist, and videos; it serves a listing in pages of pageLen *)
(* items and hands out Token(n) with page n when more pages follow.        *)
(***************************************************************************)
\* The item listings of the two playlists: an item belongs to one playlist,
\* references a video and sits at the position of its place in the listing.
Listed(ids, w) ==
    [k \in DOMAIN ids |-> RawPlaylistItem(ids[k], w[ids[k]], k)]

Arrangements(ids) ==
    {s \in UNION {[1..n -> ids] : n \in 0..Cardinality(ids)} :
        \A j, k \in DOMAIN s : j # k => s[j] # s[k]}

ItemListings ==
    {[p \in PlaylistIds |-> Listed(a[p], w)] :
        a \in {f \in [PlaylistIds -> Arrangements(ItemIds)] :
                  \A q1, q2 \in PlaylistIds :
                      q1 # q2 => \A j \in DOMAIN f[q1], k \in DOMAIN f[q2] :
                                    f[q1][j] # f[q2][k]},
        w \in [ItemIds -> VideoIds]}

Remotes ==
    {[playlists |-> [k \in DOMAIN ids |-> RawPlaylist(ids[k], 1, "Z")],
      items |-> items,
      videos |-> [i \in VideoIds |-> IF i \in held THEN RawVideo(i, 1, "Z") ELSE NULL],
      pageLen |-> n] :
        ids \in Arrangements(PlaylistIds), items \in ItemListings,
        held \in SUBSET VideoIds, n \in PageLens \ {0}}

\* The response to a list request sent with page_token.
PageNumber(page_token) == IF page_token = NULL THEN 1 ELSE page_token[2] + 1

ListResponse(listing, page_len, page_token) ==
    LET n == PageNumber(page_token)
        first == (n - 1) * page_len + 1
        last == IF n * page_len < Len(listing) THEN n * page_len ELSE Len(listing)
        items == SubSeq(listing, first, last)
    IN  IF last < Len(listing)
        THEN [items |-> items, nextPageToken |-> Token(n)]
        ELSE [items |-> items]

\* The response to videos().list(id=video_id).
VideoResponse(remote, video_id) ==
    IF remote.videos[video_id] = NULL THEN [items |-> <<>>]
    ELSE [items |-> <<remote.videos[video_id]>>]

\* The for loop of get_all_playlists over the items of one page.
RECURSIVE StorePlaylists(_, _)
StorePlaylists(run, items) ==
    IF items = <<>> THEN run
    ELSE LET playlist_data == toPlaylist(Head(items)).data
         IN  StorePlaylists(
                 [playlist |-> insert_playlist(run.playlist, playlist_data).table,
                  playlists |-> Append(run.playlists, playlist_data)],
                 Tail(items))

\* The while loop of get_all_playlists from the request with page_token on.
RECURSIVE FetchPlaylists(_, _, _)
FetchPlaylists(run, remote, page_token) ==
    LET resp == ListResponse(remote.playlists, remote.pageLen, page_token)
        after == StorePlaylists(run, resp.items)
    IN  IF Falsy(NextPageToken(resp)) THEN after
        ELSE FetchPlaylists(after, remote, NextPageToken(resp))

\* The for loop of get_playlist_videos over the items of one page.
RECURSIVE StoreItems(_, _, _, _)
StoreItems(run, items, playlist_id, remote) ==
    IF items = <<>> THEN run
    ELSE LET playlist_item_data == toPlaylistItem(Head(items), playlist_id).data
             video_response == VideoResponse(remote, Head(items)["contentDetails.videoId"])
         IN  StoreItems(
                 [playlist_item |->
                      insert_playlist_item(run.playlist_item, playlist_item_data).table,
                  video |->
                      IF video_response.items = <<>> THEN run.video
                      ELSE insert_video(run.video,
                                        toVideo(video_response.items[1]).data).table],
                 Tail(items), playlist_id, remote)

\* The while loop of get_playlist_videos from the request with page_token on.
RECURSIVE FetchItems(_, _, _, _)
FetchItems(run, playlist_id, remote, page_token) ==
    LET resp == ListResponse(remote.items[playlist_id], remote.pageLen, page_token)
        after == StoreItems(run, resp.items, playlist_id, remote)
    IN  IF Falsy(NextPageToken(resp)) THEN after
        ELSE FetchItems(after, playlist_id, remote, NextPageToken(resp))

\* for playlist in playlists: collector.get_playlist_videos(playlist['id'])
RECURSIVE ForPlaylists(_, _, _)
ForPlaylists(run, playlists, remote) ==
    IF playlists = <<>> THEN run
    ELSE ForPlaylists(FetchItems(run, Head(playlists).id, remote, NULL),
                      Tail(playlists), remote)

\* The three tables main() leaves.
main(tables, remote) ==
    LET listed == FetchPlaylists([playlist |-> tables[1], playlists |-> <<>>],
                                 remote, NULL)
        synced == ForPlaylists([playlist_item |-> tables[2], video |-> tables[3]],
                               listed.playlists, remote)
    IN  <<listed.playlist, synced.playlist_item, synced.video>>

Main ==
    \E remote \in Remotes :
        /\ Begin("main", remote)
        /\ playlist' = main(store, remote)[1]
        /\ playlist_item' = main(store, remote)[2]
        /\ video' = main(store, remote)[3]
        /\ Finished("returned")
        /\ UNCHANGED <<ret, displaced, frame, import>>

\* Full synchronizations of a Store that direct upserts and earlier
\* synchronizations have filled.
NextResync ==
    \/ DbInsertPlaylist
    \/ DbInsertPlaylistItem
    \/ DbInsertVideo
    \/ Main
    \/ Return

SpecResync == Init /\ [][NextResync]_vars

\* Full synchronizations one after the other, the remote data changing
\* between them.
NextRuns ==
    \/ Main
    \/ Return

SpecRuns == Init /\ [][NextRuns]_vars

(***************************************************************************)
(* Properties.                                                             *)
(***************************************************************************)
Fetches == {"get_all_playlists", "get_playlist_videos"}
NormalizationErrors == {"KeyError", "ValueError"}

\* The table an insert_* call writes, and its columns.
TableOf(name) ==
    CASE name = "insert_playlist" -> playlist
      [] name = "insert_playlist_item" -> playlist_item
      [] name = "insert_video" -> video

ColumnsOf(name) ==
    CASE name = "insert_playlist" -> PlaylistColumns
      [] name = "insert_playlist_item" -> PlaylistItemColumns
      [] name = "insert_video" -> VideoColumns

\* The table a row belongs to, by its columns.
TableWith(row) ==
    IF DOMAIN row = PlaylistItemColumns THEN playlist_item
    ELSE IF DOMAIN row = PlaylistColumns THEN playlist
    ELSE video

\* C1: after insert_X(r) on a table that held a different row with r's id,
\* the table holds exactly one row with that id, and that row has r's value
\* in every column r has and NULL in every column r lacks: nothing of the
\* old row is carried over.
C1_UpsertReplacesRow ==
    (op \in Inserts /\ pc = "done") =>
        /\ outcome = "returned"
        /\ Cardinality(RowsWithId(TableOf(op), arg.id)) = 1
        /\ \A r \in RowsWithId(TableOf(op), arg.id) :
              \A c \in ColumnsOf(op) :
                  r[c] = IF c \in DOMAIN arg THEN Adapt(arg[c]) ELSE NULL

\* An upsert has replaced a row that had a value in a column the new record
\* lacks.
C1_Witness ==
    /\ op \in Inserts
    /\ pc = "done"
    /\ \E old \in displaced :
          \E c \in ColumnsOf(op) : c \notin DOMAIN arg /\ old[c] # NULL

\* What the three reads of the Store show of its tables.
Observed(pl, it, vi) ==
    [playlists |-> get_all_playlists(pl),
     items |-> [p \in PlaylistIds |-> get_playlist_items(it, p)],
     videos |-> [v \in VideoIds |-> get_video(vi, v)]]

\* C2: in every reachable Store state and for every record r of every kind,
\* upserting r a second time right after upserting it succeeds and leaves
\* what the three reads return as the first upsert left it; and no upsert
\* call ends with an exception.
C2_UpsertIdempotent ==
    /\ \A d \in PlaylistDicts :
          LET once == insert_playlist(playlist, d)
              twice == insert_playlist(once.table, d)
          IN  /\ once.error = "none" /\ twice.error = "none"
              /\ Observed(twice.table, playlist_item, video)
                    = Observed(once.table, playlist_item, video)
    /\ \A d \in PlaylistItemDicts :
          LET once == insert_playlist_item(playlist_item, d)
              twice == insert_playlist_item(once.table, d)
          IN  /\ once.error = "none" /\ twice.error = "none"
              /\ Observed(playlist, twice.table, video)
                    = Observed(playlist, once.table, video)
    /\ \A d \in VideoDicts :
          LET once == insert_video(video, d)
              twice == insert_video(once.table, d)
          IN  /\ once.error = "none" /\ twice.error = "none"
              /\ Observed(playlist, playlist_item, twice.table)
                    = Observed(playlist, playlist_item, once.table)
    /\ (op \in Inserts /\ pc = "done") => outcome = "returned"

\* A record has been upserted into a table that already held exactly its
\* row, and the call returned.
C2_Witness ==
    /\ op \in Inserts
    /\ pc = "done"
    /\ outcome = "returned"
    /\ displaced = {RowOf(ColumnsOf(op), arg)}

ListPcs == {"playlists.list", "playlistItems.list"}

\* C3: a paginated fetch sends its first list request without a token and
\* each later one with the token of the response before it, and sends none
\* after a response without token; when it returns it has sent as many list
\* requests as pages were served, the last page had no token, and for every
\* id it persisted the Store holds exactly the row of the last item that
\* carried the id.
C3_PaginationFollowsTokens ==
    /\ (pc \in ListPcs) =>
          /\ requests = responses
          /\ requests = 0 => next_page_token = NULL
          /\ requests > 0 =>
                /\ ~Falsy(Get(response, "nextPageToken"))
                /\ next_page_token = Get(response, "nextPageToken")
    /\ (op \in Fetches /\ pc = "done" /\ outcome = "returned") =>
          /\ requests = responses
          /\ requests >= 1
          /\ response["items"] = 0
          /\ Falsy(Get(response, "nextPageToken"))
          /\ \A r \in persisted : RowsWithId(TableWith(r), r.id) = {r}

\* A fetch over two pages has returned and left two rows of its listing.
C3_Witness ==
    /\ op \in Fetches
    /\ pc = "done"
    /\ outcome = "returned"
    /\ requests = 2
    /\ responses = 2
    /\ \E r1, r2 \in persisted : r1.id # r2.id /\ DOMAIN r1 = DOMAIN r2

\* C4: when a list request of a fetch fails, the fetch is over, the failed
\* request being its last, and every row it persisted from the pages before
\* is in the Store as written.
C4_FailedPageKeepsEarlierPages ==
    (op \in Fetches /\ outcome = "HttpError" /\ requests = responses + 1) =>
        /\ pc = "done"
        /\ \A r \in persisted : RowsWithId(TableWith(r), r.id) = {r}

\* The second list request of a fetch has failed after rows of the first
\* page were persisted.
C4_Witness ==
    /\ op \in Fetches
    /\ pc = "done"
    /\ outcome = "HttpError"
    /\ requests = 2
    /\ responses = 1
    /\ persisted # {}

\* process_file has returned for at least one file of this process_files.
FileReturned ==
    /\ op = "process_files"
    /\ pc \in {"process_file", "done"}
    /\ outcome \in {"running", "returned"}
    /\ files_left < arg

Returned(pairs) == {p[2] : p \in {q \in pairs : q[2] # NULL}}

Elements(list) == {list[k] : k \in DOMAIN list}

\* C5: when process_file returns, get_video_data was called for exactly the
\* candidate ids that had no row when it was entered; its result holds
\* exactly the records those calls returned, each once; and table video is
\* the table as it was plus the rows of those records.
C5_ProcessFileReturnsNewVideos ==
    FileReturned =>
        /\ {p[1] : p \in looked} = candidates \ IdsOf(video0)
        /\ Elements(added_videos) = Returned(looked)
        /\ Len(added_videos) = Cardinality(Returned(looked))
        /\ \A d \in Elements(added_videos) : d.id \in candidates \ IdsOf(video0)
        /\ video = video0 \cup {RowOf(VideoColumns, d) : d \in Elements(added_videos)}

\* A file with a cached and an uncached id has been reconciled: one record
\* came back.
C5_Witness ==
    /\ FileReturned
    /\ candidates \cap IdsOf(video0) # {}
    /\ candidates \ IdsOf(video0) # {}
    /\ Len(added_videos) = 1

\* C6: no exception leaves process_files; and when process_file returns,
\* every candidate id either had a row or was looked up, an id whose lookup
\* gave nothing has no row and no record in the result, and an id whose
\* lookup gave a record has that record stored and in the result.
C6_LookupMissSkipsId ==
    /\ op = "process_files" => outcome \in {"running", "returned"}
    /\ FileReturned =>
          /\ \A i \in candidates :
                i \in IdsOf(video0) \/ \E p \in looked : p[1] = i
          /\ \A p \in looked :
                IF p[2] = NULL
                THEN /\ p[1] \notin IdsOf(video)
                     /\ \A d \in Elements(added_videos) : d.id # p[1]
                ELSE /\ RowOf(VideoColumns, p[2]) \in video
                     /\ p[2] \in Elements(added_videos)

\* In one file the lookup of one id gave nothing and that of another gave
\* a record.
C6_Witness ==
    /\ FileReturned
    /\ \E p, q \in looked : p[2] = NULL /\ q[2] # NULL

\* C7: within one process_files call no video id is the subject of more
\* than one remote lookup.
C7_AtMostOneLookupPerId ==
    op = "process_files" => \A i \in VideoIds : lookups[i] <= 1

\* C8: no paginated fetch and no reconciliation ends with the exception of
\* a normalization failure: the item is given up and the call goes on.
C8_NormalizationFailureSkipsItem ==
    (op \in Fetches \cup {"process_files"}) => outcome \notin NormalizationErrors

\* C9: no step of the engine removes an id from a table.
C9_NoEntityRemoved ==
    [][/\ IdsOf(playlist) \subseteq IdsOf(playlist')
       /\ IdsOf(playlist_item) \subseteq IdsOf(playlist_item')
       /\ IdsOf(video) \subseteq IdsOf(video')]_vars

\* get_playlist_videos has returned and the Store still holds an item of
\* the playlist that the remote did not list in this run.
C9_Witness ==
    /\ op = "get_playlist_videos"
    /\ pc = "done"
    /\ outcome = "returned"
    /\ \E r \in playlist_item : r.playlistId = arg /\ r \notin persisted

\* C10: each table holds at most one row per id.
C10_OneRowPerId ==
    /\ \A i \in IdsOf(playlist) : Cardinality(RowsWithId(playlist, i)) = 1
    /\ \A i \in IdsOf(playlist_item) : Cardinality(RowsWithId(playlist_item, i)) = 1
    /\ \A i \in IdsOf(video) : Cardinality(RowsWithId(video, i)) = 1

\* Items of two playlists reference one video, which is stored once.
C10_Witness ==
    \E r1, r2 \in playlist_item :
        /\ r1.playlistId # r2.playlistId
        /\ r1.videoId = r2.videoId
        /\ Cardinality(RowsWithId(video, r1.videoId)) = 1

\* C11: when a full synchronization has run to its end, running it again
\* against the same remote data leaves the three tables as they are.
C11_ResyncChangesNothing ==
    (op = "main" /\ pc = "done" /\ outcome = "returned") =>
        main(store, arg) = store

\* A full synchronization over two pages of playlists has left rows in all
\* three tables, next to a row the remote does not list.
C11_Witness ==
    /\ op = "main"
    /\ pc = "done"
    /\ Len(arg.playlists) > arg.pageLen
    /\ playlist_item # {}
    /\ video # {}
    /\ \E r \in playlist_item :
          \A p \in PlaylistIds :
              \A k \in DOMAIN arg.items[p] : arg.items[p][k]["id"] # r.id

\* C12: get_playlist_items(playlist_id) returns exactly the stored items of
\* the playlist, each once, in ascending ordinal position.
C12_ItemsInOrdinalOrder ==
    (op = "db.get_playlist_items" /\ pc = "done") =>
        /\ Elements(ret) = {r \in playlist_item : r.playlistId = arg}
        /\ Len(ret) = Cardinality({r \in playlist_item : r.playlistId = arg})
        /\ \A j, k \in DOMAIN ret :
              (j < k /\ ret[j].position # NULL /\ ret[k].position # NULL) =>
                  ret[j].position[2] <= ret[k].position[2]

\* C13: extract_video_ids always returns; for a path that does not exist
\* and for a file that cannot be read it returns the empty set and prints
\* its diagnostic; process_files never ends with an exception, prints one
\* diagnostic per such file at most, and returns only when it has gone
\* through every path of its list.
C13_BadFileStopsOnlyItself ==
    /\ (op = "extract_video_ids" /\ pc = "done") =>
          /\ outcome = "returned"
          /\ (~arg.exists \/ ~arg.readable) => (ret = {} /\ Len(file_errors) = 1)
          /\ (arg.exists /\ arg.readable) => file_errors = <<>>
    /\ op = "process_files" =>
          /\ outcome \in {"running", "returned"}
          /\ Len(file_errors) <= arg - files_left
          /\ pc = "done" <=> files_left = 0

\* process_files has returned after a file that could not be read and a
\* file from which it added a video.
C13_Witness ==
    /\ op = "process_files"
    /\ pc = "done"
    /\ arg = 2
    /\ Len(file_errors) = 1
    /\ Len(all_added_videos) >= 1

\* C14: for a readable file extract_video_ids returns exactly the ids that
\* a bare link or a markdown link on some line of the file carries, and the
\* empty set when no line carries a link.
C14_ExtractsLinkedIds ==
    (op = "extract_video_ids" /\ pc = "done" /\ arg.exists /\ arg.readable) =>
        /\ outcome = "returned"
        /\ \A i \in VideoIds :
              i \in ret <=>
                  \E l \in DOMAIN arg.lines : \E k \in DOMAIN arg.lines[l] :
                      arg.lines[l][k].kind # "text" /\ arg.lines[l][k].id = i

\* A file whose line holds a bare link and a markdown link to one video,
\* and that holds the markdown link again on its next line, gave that id.
C14_Witness ==
    /\ op = "extract_video_ids"
    /\ pc = "done"
    /\ arg.exists /\ arg.readable
    /\ \E i \in VideoIds :
          /\ arg.lines = <<(<<Url(i), Markdown(i)>>), (<<Markdown(i)>>)>>
          /\ ret = {i}

\* C15: when get_playlist_videos(p) has returned, every playlist item it
\* stored references a video that table video holds.
C15_NoDanglingVideoReference ==
    (op = "get_playlist_videos" /\ pc = "done" /\ outcome = "returned") =>
        \A r \in persisted :
            DOMAIN r = PlaylistItemColumns => r.videoId \in IdsOf(video)

\* C16: no two distinct stored items of one playlist have the same ordinal
\* position.
C16_PositionsUniquePerPlaylist ==
    \A r1, r2 \in playlist_item :
        (r1.playlistId = r2.playlistId /\ r1.position = r2.position) => r1 = r2

\* C17: whenever no YouTubeDatabase operation is running, the connection
\* is closed: self.conn and self.cursor are None.
C17_ConnectionClosedBetweenOperations ==
    pc \in {"idle", "done"} => (conn = NULL /\ cursor = NULL)

\* C18: when process_file returns, no candidate id that had a row when it
\* was entered has been looked up, and the row of each such id is the row
\* it had; and a step of the loop that takes an id with a row sends no
\* request and leaves table video as it is.
C18_CachedIdIsLeftAlone ==
    /\ FileReturned =>
          \A i \in candidates \cap IdsOf(video0) :
              /\ \A p \in looked : p[1] # i
              /\ RowsWithId(video, i) = RowsWithId(video0, i)
    /\ pc = "video_id" =>
          \A i \in (candidates \ video_ids) \cap IdsOf(video0) :
              /\ \A p \in looked : p[1] # i
              /\ RowsWithId(video, i) = RowsWithId(video0, i)

\* process_file has returned for a file all of whose ids had a row: it
\* looked nothing up and table video is as it was.
C18_Witness ==
    /\ FileReturned
    /\ candidates # {}
    /\ candidates \subseteq IdsOf(video0)
    /\ looked = {}
    /\ video = video0

\* C19: a list request is sent only when every item of the pages before
\* has been processed and every row the fetch has written is in the Store;
\* and the lookup of an item's video is sent only when the item's row is
\* in the Store.
C19_PersistBeforeNextRequest ==
    /\ (pc \in ListPcs /\ requests > 0) =>
          /\ responses = requests
          /\ response["items"] = 0
          /\ item = NULL
          /\ \A r \in persisted : r \in TableWith(r)
    /\ pc = "videos.list" =>
          /\ RowOf(PlaylistItemColumns, toPlaylistItem(item, arg).data) \in playlist_item
          /\ \A r \in persisted : r \in TableWith(r)
    /\ pc \in {"playlists.item", "playlistItems.item"} =>
          \A r \in persisted : r \in TableWith(r)

\* Page 2 of a playlist's items is about to be requested: the item of
\* page 1 and its video are in the Store.
C19_Witness ==
    /\ pc = "playlistItems.list"
    /\ requests = 1
    /\ \E r \in persisted \cap playlist_item :
          \E v \in persisted \cap video : r.videoId = v.id

=============================================================================
